---- MODULE Spec2Model ----
(***************************************************************************)
(* Model of the TLS context of source/common/ssl/context_impl.cc:          *)
(* construction of a ContextImpl / ClientContextImpl / ServerContextImpl   *)
(* from a ContextConfig, and the callbacks the TLS library invokes on it   *)
(* (certificate verification, ALPN selection, session ticket processing).  *)
(*                                                                         *)
(* Strings and byte vectors are sequences of byte values (0..255); a       *)
(* character is its ASCII code, so that a std::string, a                   *)
(* std::vector<uint8_t> and the input of a digest are the same kind of     *)
(* value, as they are in the program.                                      *)
(***************************************************************************)
EXTENDS Integers, Sequences, FiniteSets, TLC

VARIABLES
  config,   \* the ContextConfig the context was constructed from
  ctx,      \* the constructed context: the members of ContextImpl and its subclasses
  stats,    \* the SslStats counters of the context (stats_)
  issued,   \* session tickets the context has issued (held by peers)
  last      \* the most recent call into the context: its arguments and what it returned

vars == <<config, ctx, stats, issued, last>>

(***************************************************************************)
(* Characters and strings.                                                 *)
(***************************************************************************)

\* ASCII code of a character of the alphabet the model uses.
Ord(c) ==
  CASE c = "*" -> 42 [] c = "," -> 44 [] c = "." -> 46 [] c = "/" -> 47
    [] c = "0" -> 48 [] c = "1" -> 49 [] c = "2" -> 50 [] c = ":" -> 58
    [] c = "a" -> 97 [] c = "b" -> 98 [] c = "c" -> 99 [] c = "d" -> 100
    [] c = "e" -> 101 [] c = "f" -> 102 [] c = "h" -> 104 [] c = "i" -> 105
    [] c = "l" -> 108 [] c = "m" -> 109 [] c = "n" -> 110 [] c = "o" -> 111
    [] c = "p" -> 112 [] c = "s" -> 115 [] c = "t" -> 116 [] c = "v" -> 118
    [] c = "w" -> 119 [] c = "x" -> 120 [] c = "y" -> 121

\* The std::string spelled by a tuple of one-character strings.
RECURSIVE Str(_)
Str(t) == IF t = <<>> THEN <<>> ELSE <<Ord(Head(t))>> \o Str(Tail(t))

\* n copies of byte b.
Rep(n, b) == SubSeq([k \in 1..n |-> b], 1, n)

\* All strings over alphabet A of length at most n.
RECURSIVE StringsUpTo(_, _)
StringsUpTo(A, n) ==
  IF n = 0 THEN {<<>>}
  ELSE LET shorter == StringsUpTo(A, n - 1)
       IN shorter \cup {Append(s, c) : s \in shorter, c \in A}

\* Concatenation of a sequence of strings.
RECURSIVE Concat(_)
Concat(ss) == IF ss = <<>> THEN <<>> ELSE Head(ss) \o Concat(Tail(ss))

(***************************************************************************)
(* Exceptions.  A constructor or parser that throws EnvoyException is      *)
(* modelled as returning the exception: a tuple whose first element is the *)
(* message and whose other elements are the values formatted into it.      *)
(* NoError is "nothing was thrown".                                        *)
(***************************************************************************)
NoError == <<>>

(***************************************************************************)
(* ContextImpl::parseAlpnProtocols                                         *)
(***************************************************************************)
Comma == 44
AlpnMaxStringSize == 65535
AlpnMaxProtocolLen == 255

\* std::vector<uint8_t> out(alpn_protocols.size() + 1): zero-initialised.
AlpnOutInit(s) == Rep(Len(s) + 1, 0)

\* ParseAlpnStep with the name length limit off by one (i - start > 256).
ParseAlpnStepLongName(s, i, st) ==
  IF i = Len(s) \/ s[i + 1] = Comma
  THEN IF i - st.start > AlpnMaxProtocolLen + 1
       THEN [st EXCEPT !.error = <<"invalid ALPN protocol string">>]
       ELSE [error |-> NoError,
             start |-> i + 1,
             out   |-> [st.out EXCEPT ![st.start + 1] = i - st.start]]
  ELSE [st EXCEPT !.out[i + 2] = s[i + 1]]

\* ParseAlpnStep with the length prefix counting the separator too
\* (out[start] = i - start + 1).
ParseAlpnStepLenPlusOne(s, i, st) ==
  IF i = Len(s) \/ s[i + 1] = Comma
  THEN IF i - st.start > AlpnMaxProtocolLen
       THEN [st EXCEPT !.error = <<"invalid ALPN protocol string">>]
       ELSE [error |-> NoError,
             start |-> i + 1,
             out   |-> [st.out EXCEPT ![st.start + 1] = i - st.start + 1]]
  ELSE [st EXCEPT !.out[i + 2] = s[i + 1]]

\* One iteration of the for loop, for index i (0-based, 0 <= i <= size), on the
\* loop state st = [error, start, out].  out[k] of the code is st.out[k + 1].
ParseAlpnStep(s, i, st) ==
  IF i = Len(s) \/ s[i + 1] = Comma
  THEN IF i - st.start > AlpnMaxProtocolLen
       THEN [st EXCEPT !.error = <<"invalid ALPN protocol string">>]
       ELSE [error |-> NoError,
             start |-> i + 1,
             out   |-> [st.out EXCEPT ![st.start + 1] = i - st.start]]
  ELSE [st EXCEPT !.out[i + 2] = s[i + 1]]

\* The iterations lo, lo+1, ..., hi-1 of the for loop, executed in that order;
\* a throw ends the loop.  (The range is halved only to keep the evaluation
\* depth logarithmic; the iterations run left to right.)
RECURSIVE ParseAlpnLoop(_, _, _, _)
ParseAlpnLoop(s, lo, hi, st) ==
  IF lo >= hi THEN st
  ELSE IF hi - lo = 1 THEN ParseAlpnStep(s, lo, st)
  ELSE LET mid  == (lo + hi) \div 2
           left == ParseAlpnLoop(s, lo, mid, st)
       IN IF left.error # NoError THEN left ELSE ParseAlpnLoop(s, mid, hi, left)

\* parseAlpnProtocols(alpn_protocols): [error, out].
parseAlpnProtocols(s) ==
  IF s = <<>> THEN [error |-> NoError, out |-> <<>>]
  ELSE IF Len(s) >= AlpnMaxStringSize
       THEN [error |-> <<"invalid ALPN protocol string">>, out |-> <<>>]
       ELSE LET st == ParseAlpnLoop(s, 0, Len(s) + 1,
                                    [error |-> NoError, start |-> 0, out |-> AlpnOutInit(s)])
            IN IF st.error # NoError
               THEN [error |-> st.error, out |-> <<>>]
               ELSE [error |-> NoError, out |-> st.out]

(***************************************************************************)
(* The ALPN wire format (RFC 7301 ProtocolNameList): consecutive entries,  *)
(* each a one-byte length followed by that many bytes.                     *)
(***************************************************************************)

\* The entries of a wire-format list from (1-based) position i on:
\* [ok, names]; ok is FALSE when a length prefix runs past the end.
RECURSIVE AlpnEntriesFrom(_, _)
AlpnEntriesFrom(b, i) ==
  IF i > Len(b) THEN [ok |-> TRUE, names |-> <<>>]
  ELSE IF i + b[i] > Len(b) THEN [ok |-> FALSE, names |-> <<>>]
  ELSE LET rest == AlpnEntriesFrom(b, i + b[i] + 1)
       IN [ok |-> rest.ok, names |-> <<SubSeq(b, i + 1, i + b[i])>> \o rest.names]

AlpnEntries(b) == AlpnEntriesFrom(b, 1)

\* The wire format of a list of protocol names (what a peer sends).
RECURSIVE AlpnWire(_)
AlpnWire(names) ==
  IF names = <<>> THEN <<>>
  ELSE <<Len(Head(names))>> \o Head(names) \o AlpnWire(Tail(names))

\* The position (0-based) of the first ',' of s at or after position i, or
\* Len(s) when there is none.
NextComma(s, i) ==
  CHOOSE j \in i..Len(s) :
    /\ j = Len(s) \/ s[j + 1] = Comma
    /\ \A k \in i..(j - 1) : s[k + 1] # Comma

\* The names of a comma-separated list from position i (0-based) on.
RECURSIVE SplitFrom(_, _)
SplitFrom(s, i) ==
  LET j == NextComma(s, i)
  IN <<SubSeq(s, i + 1, j)>> \o (IF j >= Len(s) THEN <<>> ELSE SplitFrom(s, j + 1))

\* Splitting a configured protocol string on ','.  The empty string
\* configures no protocol (ALPN disabled), not one empty name.
SplitOnComma(s) == IF s = <<>> THEN <<>> ELSE SplitFrom(s, 0)

(***************************************************************************)
(* SSL_select_next_proto (TLS library), as alpnSelectCallback calls it:    *)
(* the first argument list is walked in order and the first of its entries *)
(* that also occurs in the second list is selected.  Without overlap the   *)
(* library points out at the first entry of the second list and returns    *)
(* OPENSSL_NPN_NO_OVERLAP.                                                 *)
(***************************************************************************)
RECURSIVE SelectNextProtoFrom(_, _, _)
SelectNextProtoFrom(first, i, second) ==
  IF i > Len(first) \/ i + first[i] > Len(first)
  THEN [status |-> "OPENSSL_NPN_NO_OVERLAP",
        out    |-> IF second = <<>> THEN <<>> ELSE SubSeq(second, 2, 1 + second[1])]
  ELSE LET name == SubSeq(first, i + 1, i + first[i])
       IN IF \E k \in 1..Len(AlpnEntries(second).names) : AlpnEntries(second).names[k] = name
          THEN [status |-> "OPENSSL_NPN_NEGOTIATED", out |-> name]
          ELSE SelectNextProtoFrom(first, i + first[i] + 1, second)

SSL_select_next_proto(first, second) == SelectNextProtoFrom(first, 1, second)

(***************************************************************************)
(* Peer certificates.  A certificate (an X509) is a record                 *)
(*   [chain_ok, sans, digest]:                                             *)
(* chain_ok is what X509_verify_cert finds for it, sans its                *)
(* subjectAltName entries [type, value] in order, digest the SHA-256       *)
(* X509_digest computes over its encoding.                                 *)
(***************************************************************************)
Star == 42
Dot == 46
Colon == 58
SHA256_DIGEST_LENGTH == 32

\* dNSName.compare(off, n, str) == 0: the n characters of dNSName from
\* (0-based) off equal str.
CompareAt(dNSName, off, n, str) == SubSeq(dNSName, off + 1, off + n) = str

\* dNSNameMatch with the roles of its arguments exchanged: the wildcard is
\* looked for in dNSName and pattern is matched against it.
dNSNameMatchSwapped(dNSName, pattern) ==
  IF dNSName = pattern THEN TRUE
  ELSE LET name_len == Len(dNSName)
       IN IF name_len > 1 /\ dNSName[1] = Star /\ dNSName[2] = Dot
          THEN IF Len(pattern) > name_len - 1
               THEN CompareAt(pattern, Len(pattern) - name_len + 1, name_len - 1,
                              Tail(dNSName))
               ELSE FALSE
          ELSE FALSE

\* ContextImpl::dNSNameMatch(dNSName, pattern).
dNSNameMatch(dNSName, pattern) ==
  IF dNSName = pattern THEN TRUE
  ELSE LET pattern_len == Len(pattern)
       IN IF pattern_len > 1 /\ pattern[1] = Star /\ pattern[2] = Dot
          THEN IF Len(dNSName) > pattern_len - 1
               THEN CompareAt(dNSName, Len(dNSName) - pattern_len + 1, pattern_len - 1,
                              Tail(pattern))
               ELSE FALSE
          ELSE FALSE

\* The inner loops of verifySubjectAltName: whether one subjectAltName entry
\* of the certificate is matched by some configured name.
AltNameVerified(altname, subject_alt_names) ==
  IF altname.type = "GEN_DNS"
  THEN \E k \in 1..Len(subject_alt_names) : dNSNameMatch(subject_alt_names[k], altname.value)
  ELSE IF altname.type = "GEN_URI"
  THEN \E k \in 1..Len(subject_alt_names) : subject_alt_names[k] = altname.value
  ELSE FALSE

\* The outer loop of verifySubjectAltName from entry i (1-based) on:
\* for (i; i < n && !verified; i++).
RECURSIVE VerifyAltNamesFrom(_, _, _)
VerifyAltNamesFrom(altnames, i, subject_alt_names) ==
  IF i > Len(altnames) THEN FALSE
  ELSE IF AltNameVerified(altnames[i], subject_alt_names) THEN TRUE
  ELSE VerifyAltNamesFrom(altnames, i + 1, subject_alt_names)

\* ContextImpl::verifySubjectAltName(cert, subject_alt_names).  A certificate
\* without the extension has no altnames: the result is false.
verifySubjectAltName(cert, subject_alt_names) ==
  VerifyAltNamesFrom(cert.sans, 1, subject_alt_names)

\* ContextImpl::verifyCertificateHash(cert, expected_hash).
verifyCertificateHash(cert, expected_hash) == cert.digest = expected_hash

\* hash.erase(std::remove(hash.begin(), hash.end(), ':'), hash.end()).
NotColon(c) == c # Colon
RemoveColons(s) == SelectSeq(s, NotColon)

\* The value of a hexadecimal digit of the model's alphabet.
HexDigit(c) == CASE c = 48 -> 0 [] c = 49 -> 1 [] c = 50 -> 2 [] c = 97 -> 10
                 [] c = 98 -> 11 [] c = 99 -> 12 [] c = 100 -> 13 [] c = 101 -> 14
                 [] c = 102 -> 15

\* Hex::decode: two hexadecimal digits per byte.
HexDecode(s) ==
  SubSeq([k \in 1..(Len(s) \div 2) |-> 16 * HexDigit(s[2 * k - 1]) + HexDigit(s[2 * k])],
         1, Len(s) \div 2)

(***************************************************************************)
(* Certificate files.  loadCert(file) reads the first certificate of a PEM *)
(* file, and throws when the file cannot be read or parsed.  A loaded      *)
(* certificate is [digest]: the SHA-256 X509_digest computes for it.       *)
(* A bssl::UniquePtr<X509> is a sequence: <<>> is nullptr, <<c>> holds c.  *)
(***************************************************************************)
CertFiles == {"ca1.pem", "ca2.pem", "chain.pem"}

FileCert(file) ==
  CASE file = "ca1.pem"   -> [digest |-> Rep(SHA256_DIGEST_LENGTH, 161), serial |-> <<1>>]
    [] file = "ca2.pem"   -> [digest |-> Rep(SHA256_DIGEST_LENGTH, 162), serial |-> <<2>>]
    [] file = "chain.pem" -> [digest |-> Rep(SHA256_DIGEST_LENGTH, 192), serial |-> <<1, 10>>]

loadCert(cert_file) ==
  IF cert_file \in CertFiles
  THEN [error |-> NoError, cert |-> <<FileCert(cert_file)>>]
  ELSE [error |-> <<"Failed to load certificate", cert_file>>, cert |-> <<>>]

(***************************************************************************)
(* Construction.  A context is the record of the members the constructors  *)
(* set; error is the exception construction ended with (NoError: the       *)
(* context exists).  verify_mode is the mode given to SSL_CTX_set_verify   *)
(* (a set of SSL_VERIFY_* flags, {} being SSL_VERIFY_NONE, the library's   *)
(* default); the *_cb fields say which callbacks were registered.          *)
(***************************************************************************)
SSL_VERIFY_NONE == {}
SSL_VERIFY_PEER == {"SSL_VERIFY_PEER"}
SSL_VERIFY_FAIL_IF_NO_PEER_CERT == {"SSL_VERIFY_FAIL_IF_NO_PEER_CERT"}

NoContext ==
  [error                         |-> NoError,
   role                          |-> "none",
   verify_mode                   |-> SSL_VERIFY_NONE,
   cert_verify_cb                |-> FALSE,
   ca_cert_                      |-> <<>>,
   ca_file_path_                 |-> "",
   cert_chain_                   |-> <<>>,
   cert_chain_file_path_         |-> "",
   verify_subject_alt_name_list_ |-> <<>>,
   verify_certificate_hash_      |-> <<>>,
   parsed_alpn_protocols_        |-> <<>>,
   parsed_alt_alpn_protocols_    |-> <<>>,
   alpn_protos_offered           |-> <<>>,
   alpn_select_cb                |-> FALSE,
   session_ticket_keys_          |-> <<>>,
   ticket_key_cb                 |-> FALSE,
   session_id_context            |-> <<>>,
   server_name_indication_       |-> <<>>]

\* A constructor that throws: no context is produced.
Thrown(e) == [NoContext EXCEPT !.error = e]

\* VerifyModeOf without the escalation for a pinned certificate hash.
VerifyModeOfNoHash(cfg) ==
  LET m1 == IF cfg.caCertFile # "" THEN SSL_VERIFY_PEER ELSE SSL_VERIFY_NONE
  IN IF cfg.verifySubjectAltNameList # <<>>
     THEN SSL_VERIFY_PEER \cup SSL_VERIFY_FAIL_IF_NO_PEER_CERT ELSE m1

\* int verify_mode as ContextImpl::ContextImpl computes it (lines 46-71).
VerifyModeOf(cfg) ==
  LET m1 == IF cfg.caCertFile # "" THEN SSL_VERIFY_PEER ELSE SSL_VERIFY_NONE
      m2 == IF cfg.verifySubjectAltNameList # <<>>
            THEN SSL_VERIFY_PEER \cup SSL_VERIFY_FAIL_IF_NO_PEER_CERT ELSE m1
  IN IF cfg.verifyCertificateHash # <<>>
     THEN SSL_VERIFY_PEER \cup SSL_VERIFY_FAIL_IF_NO_PEER_CERT ELSE m2

\* ContextImpl::ContextImpl(parent, scope, config).  The cipher suite and
\* curve strings and the private key file are taken to be valid.
ContextImpl(cfg) ==
  LET ca    == IF cfg.caCertFile # "" THEN loadCert(cfg.caCertFile)
               ELSE [error |-> NoError, cert |-> <<>>]
      chain == IF cfg.certChainFile # "" THEN loadCert(cfg.certChainFile)
               ELSE [error |-> NoError, cert |-> <<>>]
      alpn  == parseAlpnProtocols(cfg.alpnProtocols)
      mode  == VerifyModeOf(cfg)
  IN IF ca.error # NoError THEN Thrown(ca.error)
     ELSE IF chain.error # NoError THEN Thrown(chain.error)
     ELSE IF alpn.error # NoError THEN Thrown(alpn.error)
     ELSE [NoContext EXCEPT
            !.role                          = "base",
            !.ca_cert_                      = ca.cert,
            !.ca_file_path_                 = cfg.caCertFile,
            !.verify_subject_alt_name_list_ = cfg.verifySubjectAltNameList,
            !.verify_certificate_hash_      =
                IF cfg.verifyCertificateHash # <<>>
                THEN HexDecode(RemoveColons(cfg.verifyCertificateHash)) ELSE <<>>,
            !.verify_mode                   = mode,
            !.cert_verify_cb                = (mode # SSL_VERIFY_NONE),
            !.cert_chain_                   = chain.cert,
            !.cert_chain_file_path_         = cfg.certChainFile,
            !.parsed_alpn_protocols_        = alpn.out]

\* ClientContextImpl::ClientContextImpl.
ClientContextImpl(cfg) ==
  LET base == ContextImpl(cfg)
  IN IF base.error # NoError THEN base
     ELSE [base EXCEPT
            !.role                    = "client",
            !.alpn_protos_offered     = base.parsed_alpn_protocols_,
            !.server_name_indication_ = cfg.serverNameIndication]

\* sizeof(SessionTicketKey) and the sizes of its members name, hmac_key, aes_key.
SessionTicketKeySize == 80
TicketKeyNameLen == 16
TicketHmacKeyLen == 32
TicketAesKeyLen == 32

\* SplitTicketKey with the AES key copied before the HMAC key.
SplitTicketKeyAesFirst(src_key) ==
  [name     |-> SubSeq(src_key, 1, TicketKeyNameLen),
   aes_key  |-> SubSeq(src_key, TicketKeyNameLen + 1, TicketKeyNameLen + TicketAesKeyLen),
   hmac_key |-> SubSeq(src_key, TicketKeyNameLen + TicketAesKeyLen + 1,
                       TicketKeyNameLen + TicketAesKeyLen + TicketHmacKeyLen)]

\* The std::copy_n calls that split one 80-byte blob (lines 402-407).
SplitTicketKey(src_key) ==
  [name     |-> SubSeq(src_key, 1, TicketKeyNameLen),
   hmac_key |-> SubSeq(src_key, TicketKeyNameLen + 1, TicketKeyNameLen + TicketHmacKeyLen),
   aes_key  |-> SubSeq(src_key, TicketKeyNameLen + TicketHmacKeyLen + 1,
                       TicketKeyNameLen + TicketHmacKeyLen + TicketAesKeyLen)]

\* The loop over config.sessionTicketKeys() from index i (1-based) on:
\* [error, keys]; the first blob of a wrong size throws, naming its
\* (0-based) index, its size and the expected size.
RECURSIVE ParseTicketKeysFrom(_, _)
ParseTicketKeysFrom(blobs, i) ==
  IF i > Len(blobs) THEN [error |-> NoError, keys |-> <<>>]
  ELSE IF Len(blobs[i]) # SessionTicketKeySize
  THEN [error |-> <<"Incorrect TLS session ticket key length", i - 1, Len(blobs[i]),
                    SessionTicketKeySize>>,
        keys  |-> <<>>]
  ELSE LET rest == ParseTicketKeysFrom(blobs, i + 1)
       IN [error |-> rest.error,
           keys  |-> IF rest.error # NoError THEN <<>>
                     ELSE <<SplitTicketKey(blobs[i])>> \o rest.keys]

\* SHA-256, taken to be injective: the digest stands for the bytes digested.
SHA256(bytes) == <<"sha256", bytes>>

\* The byte string the constructor feeds to the digest that becomes the
\* session id context (lines 431-454), for a context c built so far.
SessionContextInput(c) ==
  Str(<<"e", "n", "v", "o", "y">>)
    \o (IF c.ca_cert_ # <<>>
        THEN c.ca_cert_[1].digest
               \o Concat(c.verify_subject_alt_name_list_)
               \o c.verify_certificate_hash_
        ELSE <<>>)

\* ServerContextImpl::ServerContextImpl.  SSL_load_client_CA_file reads the
\* file loadCert has just read, and is taken to succeed.
ServerContextImpl(cfg) ==
  LET base == ContextImpl(cfg)
      alt  == parseAlpnProtocols(cfg.altAlpnProtocols)
      keys == ParseTicketKeysFrom(cfg.sessionTicketKeys, 1)
      mode == IF cfg.caCertFile # "" /\ cfg.requireClientCertificate
              THEN SSL_VERIFY_PEER \cup SSL_VERIFY_FAIL_IF_NO_PEER_CERT
              ELSE base.verify_mode
  IN IF base.error # NoError THEN base
     ELSE IF alt.error # NoError THEN Thrown(alt.error)
     ELSE IF keys.error # NoError THEN Thrown(keys.error)
     ELSE [base EXCEPT
            !.role                       = "server",
            !.verify_mode                = mode,
            !.parsed_alt_alpn_protocols_ = alt.out,
            !.alpn_select_cb             = (base.parsed_alpn_protocols_ # <<>>),
            !.session_ticket_keys_       = keys.keys,
            !.ticket_key_cb              = (cfg.sessionTicketKeys # <<>>),
            !.session_id_context         = SHA256(SessionContextInput(base))]

\* The context a configuration constructs.
Construct(cfg) ==
  IF cfg.role = "client" THEN ClientContextImpl(cfg) ELSE ServerContextImpl(cfg)

(***************************************************************************)
(* Certificate verification.                                               *)
(***************************************************************************)
MaxCount == 2

\* stats_.<counter>.inc().
Inc(st, counter) == [st EXCEPT ![counter] = @ + 1]

\* verifyCertificate without the early return after a subject alternative
\* name mismatch: the hash is checked, and counted, as well.
verifyCertificateNoReturn(c, st, cert) ==
  LET san_fails  == c.verify_subject_alt_name_list_ # <<>>
                      /\ ~verifySubjectAltName(cert, c.verify_subject_alt_name_list_)
      hash_fails == c.verify_certificate_hash_ # <<>>
                      /\ ~verifyCertificateHash(cert, c.verify_certificate_hash_)
      st1 == IF san_fails THEN Inc(st, "fail_verify_san_") ELSE st
      st2 == IF hash_fails THEN Inc(st1, "fail_verify_cert_hash_") ELSE st1
  IN [ret   |-> IF san_fails \/ hash_fails THEN 0 ELSE 1,
      stats |-> st2,
      steps |-> (IF c.verify_subject_alt_name_list_ # <<>> THEN <<"san">> ELSE <<>>)
                  \o (IF c.verify_certificate_hash_ # <<>> THEN <<"hash">> ELSE <<>>)]

\* ContextImpl::verifyCertificate(cert) on context c with counters st:
\* [ret, stats, steps]; steps lists the checks evaluated, in order.
verifyCertificate(c, st, cert) ==
  IF c.verify_subject_alt_name_list_ # <<>>
       /\ ~verifySubjectAltName(cert, c.verify_subject_alt_name_list_)
  THEN [ret |-> 0, stats |-> Inc(st, "fail_verify_san_"), steps |-> <<"san">>]
  ELSE LET s1 == IF c.verify_subject_alt_name_list_ # <<>> THEN <<"san">> ELSE <<>>
       IN IF c.verify_certificate_hash_ # <<>>
               /\ ~verifyCertificateHash(cert, c.verify_certificate_hash_)
          THEN [ret |-> 0, stats |-> Inc(st, "fail_verify_cert_hash_"),
                steps |-> s1 \o <<"hash">>]
          ELSE [ret |-> 1, stats |-> st,
                steps |-> s1 \o (IF c.verify_certificate_hash_ # <<>>
                                 THEN <<"hash">> ELSE <<>>)]

\* verifyCallback counting a failed chain validation as a subject
\* alternative name failure.
verifyCallbackCountsSan(c, st, cert) ==
  IF ~cert.chain_ok
  THEN [ret |-> 0, stats |-> Inc(st, "fail_verify_san_"), steps |-> <<"chain">>]
  ELSE LET r == verifyCertificate(c, st, cert)
       IN [ret |-> r.ret, stats |-> r.stats, steps |-> <<"chain">> \o r.steps]

\* ContextImpl::verifyCallback(store_ctx, arg): X509_verify_cert first (it
\* returns 1 for a valid chain and 0 otherwise), then verifyCertificate on
\* the peer certificate.
verifyCallback(c, st, cert) ==
  IF ~cert.chain_ok
  THEN [ret |-> 0, stats |-> Inc(st, "fail_verify_error_"), steps |-> <<"chain">>]
  ELSE LET r == verifyCertificate(c, st, cert)
       IN [ret |-> r.ret, stats |-> r.stats, steps |-> <<"chain">> \o r.steps]

\* What the TLS library does with a peer during a handshake on context c,
\* given the verify mode and callback the constructor registered: a peer
\* without a certificate fails the handshake only under
\* SSL_VERIFY_FAIL_IF_NO_PEER_CERT; a peer certificate is handed to the
\* registered callback, whose result decides; with no callback registered
\* (SSL_VERIFY_NONE) nothing is verified.
PeerVerification(c, st, peer) ==
  IF ~peer.present
  THEN [invoked |-> FALSE, ret |-> -1, steps |-> <<>>, stats |-> st,
        accepted |-> ~(SSL_VERIFY_FAIL_IF_NO_PEER_CERT \subseteq c.verify_mode)]
  ELSE IF c.cert_verify_cb
  THEN LET r == verifyCallback(c, st, peer.cert)
       IN [invoked |-> TRUE, ret |-> r.ret, steps |-> r.steps, stats |-> r.stats,
           accepted |-> (r.ret = 1)]
  ELSE [invoked |-> FALSE, ret |-> -1, steps |-> <<>>, stats |-> st, accepted |-> TRUE]

\* A handshake with a peer reaches certificate verification.
Handshake(peer) ==
  /\ ctx.error = NoError
  /\ stats.fail_verify_error_ + stats.fail_verify_san_ + stats.fail_verify_cert_hash_
       < MaxCount
  /\ LET r == PeerVerification(ctx, stats, peer)
     IN /\ stats' = r.stats
        /\ last' = [op |-> "handshake", peer |-> peer, invoked |-> r.invoked,
                    ret |-> r.ret, steps |-> r.steps, accepted |-> r.accepted,
                    before |-> stats]
  /\ UNCHANGED <<config, ctx, issued>>

(***************************************************************************)
(* ALPN selection.                                                         *)
(***************************************************************************)

\* alpnSelectCallback handing the two lists to SSL_select_next_proto in the
\* other order: the client's preference decides.
alpnSelectCallbackClientOrder(c, in, enabled) ==
  LET use_alt   == c.parsed_alt_alpn_protocols_ # <<>> /\ enabled
      queries   == IF c.parsed_alt_alpn_protocols_ # <<>> THEN 1 ELSE 0
      alpn_data == IF use_alt THEN c.parsed_alt_alpn_protocols_
                   ELSE c.parsed_alpn_protocols_
      sel       == SSL_select_next_proto(in, alpn_data)
  IN [ret          |-> IF sel.status # "OPENSSL_NPN_NEGOTIATED"
                       THEN "SSL_TLSEXT_ERR_NOACK" ELSE "SSL_TLSEXT_ERR_OK",
      out          |-> sel.out,
      alpn_data    |-> alpn_data,
      flag_queries |-> queries]

\* alpnSelectCallback using the alternate list whenever there is one,
\* without asking the runtime.
alpnSelectCallbackAlwaysAlt(c, in, enabled) ==
  LET alpn_data == IF c.parsed_alt_alpn_protocols_ # <<>>
                   THEN c.parsed_alt_alpn_protocols_ ELSE c.parsed_alpn_protocols_
      sel       == SSL_select_next_proto(alpn_data, in)
  IN [ret          |-> IF sel.status # "OPENSSL_NPN_NEGOTIATED"
                       THEN "SSL_TLSEXT_ERR_NOACK" ELSE "SSL_TLSEXT_ERR_OK",
      out          |-> sel.out,
      alpn_data    |-> alpn_data,
      flag_queries |-> 0]

\* ServerContextImpl::alpnSelectCallback(out, outlen, in, inlen) on context
\* c; enabled is what runtime_.snapshot().featureEnabled("ssl.alt_alpn", 0)
\* answers if asked.  [ret, out, alpn_data, flag_queries].
alpnSelectCallback(c, in, enabled) ==
  LET use_alt   == c.parsed_alt_alpn_protocols_ # <<>> /\ enabled
      queries   == IF c.parsed_alt_alpn_protocols_ # <<>> THEN 1 ELSE 0
      alpn_data == IF use_alt THEN c.parsed_alt_alpn_protocols_
                   ELSE c.parsed_alpn_protocols_
      sel       == SSL_select_next_proto(alpn_data, in)
  IN [ret          |-> IF sel.status # "OPENSSL_NPN_NEGOTIATED"
                       THEN "SSL_TLSEXT_ERR_NOACK" ELSE "SSL_TLSEXT_ERR_OK",
      out          |-> sel.out,
      alpn_data    |-> alpn_data,
      flag_queries |-> queries]

\* AlpnSelect keeping the list it negotiated against as the context's
\* primary list.
AlpnSelectStoresChoice(offered, enabled) ==
  /\ ctx.error = NoError
  /\ ctx.alpn_select_cb
  /\ LET r == alpnSelectCallback(ctx, AlpnWire(offered), enabled)
     IN /\ last' = [op |-> "alpn", offered |-> offered, enabled |-> enabled,
                    ret |-> r.ret, out |-> r.out, alpn_data |-> r.alpn_data,
                    flag_queries |-> r.flag_queries,
                    selected |-> IF r.ret = "SSL_TLSEXT_ERR_OK" THEN <<r.out>> ELSE <<>>,
                    before |-> ctx]
        /\ ctx' = [ctx EXCEPT !.parsed_alpn_protocols_ = r.alpn_data]
  /\ UNCHANGED <<config, stats, issued>>

\* The library calls the registered ALPN selection callback with the list a
\* client offers; the protocol of the connection is out when the callback
\* returns SSL_TLSEXT_ERR_OK, and none otherwise.
AlpnSelect(offered, enabled) ==
  /\ ctx.error = NoError
  /\ ctx.alpn_select_cb
  /\ LET r == alpnSelectCallback(ctx, AlpnWire(offered), enabled)
     IN last' = [op |-> "alpn", offered |-> offered, enabled |-> enabled,
                 ret |-> r.ret, out |-> r.out, alpn_data |-> r.alpn_data,
                 flag_queries |-> r.flag_queries,
                 selected |-> IF r.ret = "SSL_TLSEXT_ERR_OK" THEN <<r.out>> ELSE <<>>,
                 before |-> ctx]
  /\ UNCHANGED <<config, ctx, stats, issued>>

(***************************************************************************)
(* Session tickets.                                                        *)
(***************************************************************************)

\* The decrypt loop without is_enc_key: every match is "do not renew".
RECURSIVE TicketDecryptNoRenew(_, _, _, _, _)
TicketDecryptNoRenew(keys, i, key_name, hmac_ok, cipher_ok) ==
  IF i > Len(keys) THEN [ret |-> 0, hmac_key |-> <<>>, aes_key |-> <<>>]
  ELSE IF keys[i].name = key_name
  THEN IF ~hmac_ok THEN [ret |-> -1, hmac_key |-> <<>>, aes_key |-> <<>>]
       ELSE IF ~cipher_ok
       THEN [ret |-> -1, hmac_key |-> keys[i].hmac_key, aes_key |-> <<>>]
       ELSE [ret |-> 1, hmac_key |-> keys[i].hmac_key, aes_key |-> keys[i].aes_key]
  ELSE TicketDecryptNoRenew(keys, i + 1, key_name, hmac_ok, cipher_ok)

\* The decrypt loop of sessionTicketProcess from key i (1-based) on.
RECURSIVE TicketDecryptFrom(_, _, _, _, _)
TicketDecryptFrom(keys, i, key_name, hmac_ok, cipher_ok) ==
  IF i > Len(keys) THEN [ret |-> 0, hmac_key |-> <<>>, aes_key |-> <<>>]
  ELSE IF keys[i].name = key_name
  THEN IF ~hmac_ok THEN [ret |-> -1, hmac_key |-> <<>>, aes_key |-> <<>>]
       ELSE IF ~cipher_ok
       THEN [ret |-> -1, hmac_key |-> keys[i].hmac_key, aes_key |-> <<>>]
       ELSE [ret      |-> IF i = 1 THEN 1 ELSE 2,
             hmac_key |-> keys[i].hmac_key,
             aes_key  |-> keys[i].aes_key]
  ELSE TicketDecryptFrom(keys, i + 1, key_name, hmac_ok, cipher_ok)

\* sessionTicketProcess encrypting with session_ticket_keys_.back().
sessionTicketProcessLastKey(c, key_name, encrypt, hmac_ok, cipher_ok) ==
  IF encrypt = 1
  THEN IF c.session_ticket_keys_ = <<>>
       THEN [ret |-> -1, key_name |-> key_name, hmac_key |-> <<>>, aes_key |-> <<>>]
       ELSE LET key == c.session_ticket_keys_[Len(c.session_ticket_keys_)]
            IN IF ~cipher_ok
               THEN [ret |-> -1, key_name |-> key.name, hmac_key |-> <<>>,
                     aes_key |-> <<>>]
               ELSE IF ~hmac_ok
               THEN [ret |-> -1, key_name |-> key.name, hmac_key |-> <<>>,
                     aes_key |-> key.aes_key]
               ELSE [ret |-> 1, key_name |-> key.name, hmac_key |-> key.hmac_key,
                     aes_key |-> key.aes_key]
  ELSE LET d == TicketDecryptFrom(c.session_ticket_keys_, 1, key_name, hmac_ok, cipher_ok)
       IN [ret |-> d.ret, key_name |-> key_name, hmac_key |-> d.hmac_key,
           aes_key |-> d.aes_key]

\* ServerContextImpl::sessionTicketProcess(ssl, key_name, iv, ctx, hmac_ctx,
\* encrypt) on context c.  key_name is the name read from the ticket
\* (decrypt); hmac_ok and cipher_ok say whether HMAC_Init_ex and
\* EVP_EncryptInit_ex / EVP_DecryptInit_ex succeed.  The result is
\* [ret, key_name, hmac_key, aes_key]: the return value, the key name left
\* in the buffer, and the key material the HMAC and the cipher were
\* initialised with (<<>>: not initialised).
sessionTicketProcess(c, key_name, encrypt, hmac_ok, cipher_ok) ==
  IF encrypt = 1
  THEN IF c.session_ticket_keys_ = <<>>
       THEN [ret |-> -1, key_name |-> key_name, hmac_key |-> <<>>, aes_key |-> <<>>]
       ELSE LET key == Head(c.session_ticket_keys_)
            IN IF ~cipher_ok
               THEN [ret |-> -1, key_name |-> key.name, hmac_key |-> <<>>,
                     aes_key |-> <<>>]
               ELSE IF ~hmac_ok
               THEN [ret |-> -1, key_name |-> key.name, hmac_key |-> <<>>,
                     aes_key |-> key.aes_key]
               ELSE [ret |-> 1, key_name |-> key.name, hmac_key |-> key.hmac_key,
                     aes_key |-> key.aes_key]
  ELSE LET d == TicketDecryptFrom(c.session_ticket_keys_, 1, key_name, hmac_ok, cipher_ok)
       IN [ret |-> d.ret, key_name |-> key_name, hmac_key |-> d.hmac_key,
           aes_key |-> d.aes_key]

\* The context is asked to encrypt a new ticket; a ticket that was
\* encrypted goes to the peer.
TicketEncrypt(hmac_ok, cipher_ok) ==
  /\ ctx.error = NoError
  /\ LET r == sessionTicketProcess(ctx, Rep(TicketKeyNameLen, 0), 1, hmac_ok, cipher_ok)
     IN /\ last' = [op |-> "encrypt", ret |-> r.ret, key_name |-> r.key_name,
                    hmac_key |-> r.hmac_key, aes_key |-> r.aes_key,
                    hmac_ok |-> hmac_ok, cipher_ok |-> cipher_ok]
        /\ issued' = IF r.ret = 1
                     THEN issued \cup {[key_name |-> r.key_name, hmac_key |-> r.hmac_key,
                                        aes_key |-> r.aes_key]}
                     ELSE issued
  /\ UNCHANGED <<config, ctx, stats>>

\* A peer presents a ticket carrying key name key_name.
TicketDecrypt(key_name, hmac_ok, cipher_ok) ==
  /\ ctx.error = NoError
  /\ LET r == sessionTicketProcess(ctx, key_name, 0, hmac_ok, cipher_ok)
     IN last' = [op |-> "decrypt", ret |-> r.ret, key_name |-> key_name,
                 hmac_key |-> r.hmac_key, aes_key |-> r.aes_key,
                 hmac_ok |-> hmac_ok, cipher_ok |-> cipher_ok]
  /\ UNCHANGED <<config, ctx, stats, issued>>

(***************************************************************************)
(* Certificate expiry.  The time to a certificate's notAfter depends on    *)
(* the clock: diff = [ok, days] is what ASN1_TIME_diff(&days, &seconds,    *)
(* nullptr, X509_get_notAfter(cert)) gives for the certificate at the time *)
(* of the call (ok: its return value; days is negative once the            *)
(* certificate has expired).  A certificate pointer is a sequence of at    *)
(* most one certificate, the empty one being nullptr.                      *)
(***************************************************************************)
INT_MAX == 2147483647

\* Decimal digits of n >= 0, and the text fmt::format's {} gives for an int.
RECURSIVE Digits(_)
Digits(n) == IF n < 10 THEN <<48 + n>> ELSE Digits(n \div 10) \o <<48 + (n % 10)>>
FormatInt(n) == IF n < 0 THEN <<45>> \o Digits(0 - n) ELSE Digits(n)

\* BN_bn2hex of the serial number's bytes: two upper-case hex digits each.
HexChar(d) == IF d < 10 THEN 48 + d ELSE 55 + d
getSerialNumber(cert) ==
  [k \in 1..(2 * Len(cert.serial)) |->
     IF k % 2 = 1 THEN HexChar(cert.serial[(k + 1) \div 2] \div 16)
     ELSE HexChar(cert.serial[k \div 2] % 16)]

\* daysUntilFirstCertExpires without the test for a negative value.
daysUntilFirstCertExpiresNoClamp(c, ca_diff, chain_diff) ==
  LET ca    == IF c.ca_cert_ = <<>> THEN INT_MAX
               ELSE IF ca_diff.ok THEN ca_diff.days ELSE 0
      chain == IF c.cert_chain_ = <<>> THEN INT_MAX
               ELSE IF chain_diff.ok THEN chain_diff.days ELSE 0
  IN IF chain < ca THEN chain ELSE ca

\* ContextImpl::getDaysUntilExpiration(cert).
getDaysUntilExpiration(cert, diff) ==
  IF cert = <<>> THEN INT_MAX
  ELSE IF diff.ok THEN diff.days
  ELSE 0

\* ContextImpl::daysUntilFirstCertExpires().
daysUntilFirstCertExpires(c, ca_diff, chain_diff) ==
  LET ca    == getDaysUntilExpiration(c.ca_cert_, ca_diff)
      chain == getDaysUntilExpiration(c.cert_chain_, chain_diff)
      daysUntilExpiration == IF chain < ca THEN chain ELSE ca
  IN IF daysUntilExpiration < 0 THEN 0 ELSE daysUntilExpiration

\* The text of fmt::format("Certificate Path: {}, Serial Number: {}, Days
\* until Expiration: {}", path, serial, days), as its six pieces.
CertInformation(path, serial, days) ==
  <<"Certificate Path: ", path, ", Serial Number: ", serial,
    ", Days until Expiration: ", FormatInt(days)>>

\* ContextImpl::getCaCertInformation() and getCertChainInformation().
getCaCertInformation(c, ca_diff) ==
  IF c.ca_cert_ = <<>> THEN <<>>
  ELSE CertInformation(c.ca_file_path_, getSerialNumber(c.ca_cert_[1]),
                       getDaysUntilExpiration(c.ca_cert_, ca_diff))

getCertChainInformation(c, chain_diff) ==
  IF c.cert_chain_ = <<>> THEN <<>>
  ELSE CertInformation(c.cert_chain_file_path_, getSerialNumber(c.cert_chain_[1]),
                       getDaysUntilExpiration(c.cert_chain_, chain_diff))

\* The expiry queries are made on the context at some time.
ExpiryQuery(ca_diff, chain_diff) ==
  /\ ctx.error = NoError
  /\ last' = [op         |-> "expiry",
              ca_diff    |-> ca_diff,
              chain_diff |-> chain_diff,
              ca_days    |-> getDaysUntilExpiration(ctx.ca_cert_, ca_diff),
              chain_days |-> getDaysUntilExpiration(ctx.cert_chain_, chain_diff),
              first_days |-> daysUntilFirstCertExpires(ctx, ca_diff, chain_diff),
              ca_info    |-> getCaCertInformation(ctx, ca_diff),
              chain_info |-> getCertChainInformation(ctx, chain_diff)]
  /\ UNCHANGED <<config, ctx, stats, issued>>


\* parseAlpnProtocols is applied to the protocol string that was handed in.
ParseAlpn ==
  /\ last.op = "call parseAlpnProtocols"
  /\ last' = [op |-> "parseAlpnProtocols", alpn_protocols |-> last.alpn_protocols,
              ret |-> parseAlpnProtocols(last.alpn_protocols)]
  /\ UNCHANGED <<config, ctx, stats, issued>>

(***************************************************************************)
(* Configurations, peers and inputs explored.                              *)
(***************************************************************************)
foo_com      == Str(<<"f", "o", "o", ".", "c", "o", "m">>)
api_foo_com  == Str(<<"a", "p", "i", ".">>) \o foo_com
star_foo_com == Str(<<"*", ".">>) \o foo_com
example_com        == Str(<<"e", "x", "a", "m", "p", "l", "e", ".", "c", "o", "m">>)
www_example_com    == Str(<<"w", "w", "w", ".">>) \o example_com
a_b_example_com    == Str(<<"a", ".", "b", ".">>) \o example_com
star_example_com   == Str(<<"*", ".">>) \o example_com

h2       == Str(<<"h", "2">>)
http_1_1 == Str(<<"h", "t", "t", "p", "/", "1", ".", "1">>)
spdy_1   == Str(<<"s", "p", "d", "y", "/", "1">>)

\* s1,s2,...: a comma-separated list.
RECURSIVE Csv(_)
Csv(names) ==
  IF names = <<>> THEN <<>>
  ELSE IF Len(names) = 1 THEN names[1]
  ELSE names[1] \o <<Comma>> \o Csv(Tail(names))

\* Certificate digests, and the hexadecimal strings that configure them:
\* n bytes, each written as the two digits d1 d2, joined by sep.
DigestOne == Rep(SHA256_DIGEST_LENGTH, 17)
DigestTwo == Rep(SHA256_DIGEST_LENGTH, 18)

HexString(n, d1, d2, sep) ==
  IF sep = <<>>
  THEN SubSeq([k \in 1..(2 * n) |-> IF k % 2 = 1 THEN d1 ELSE d2], 1, 2 * n)
  ELSE SubSeq([k \in 1..(3 * n - 1) |->
                 IF k % 3 = 1 THEN d1 ELSE IF k % 3 = 2 THEN d2 ELSE sep[1]], 1, 3 * n - 1)

HexOne      == HexString(SHA256_DIGEST_LENGTH, 49, 49, <<>>)
HexOneColon == HexString(SHA256_DIGEST_LENGTH, 49, 49, <<Colon>>)

\* Session ticket key blobs: name || hmac_key || aes_key.
Blob(name, h, a) == name \o Rep(TicketHmacKeyLen, h) \o Rep(TicketAesKeyLen, a)
NameZero  == Rep(TicketKeyNameLen, 1)
NameOne   == Rep(TicketKeyNameLen, 2)
\* A name that differs from NameOne in its last byte only.
NameTwo   == Rep(TicketKeyNameLen - 1, 2) \o <<3>>
NameOther == Rep(TicketKeyNameLen, 9)
KeyNames  == {NameZero, NameOne, NameTwo, NameOther}
BlobZero  == Blob(NameZero, 10, 20)
BlobOne   == Blob(NameOne, 11, 21)
BlobTwo   == Blob(NameTwo, 12, 22)
\* A second key carrying the name of BlobOne.
BlobOneB  == Blob(NameOne, 13, 23)

DefaultConfig ==
  [role                     |-> "server",
   caCertFile               |-> "",
   certChainFile            |-> "",
   verifySubjectAltNameList |-> <<>>,
   verifyCertificateHash    |-> <<>>,
   requireClientCertificate |-> FALSE,
   alpnProtocols            |-> <<>>,
   altAlpnProtocols         |-> <<>>,
   sessionTicketKeys        |-> <<>>,
   serverNameIndication     |-> <<>>]

\* Server configurations that vary the verification policy.
VerifyConfigs ==
  {[DefaultConfig EXCEPT !.caCertFile = ca, !.verifySubjectAltNameList = sans,
                         !.verifyCertificateHash = hash,
                         !.requireClientCertificate = req] :
     ca \in {"", "ca1.pem"},
     sans \in {<<>>, <<star_foo_com>>, <<api_foo_com, foo_com>>},
     hash \in {<<>>, HexOneColon},
     req \in BOOLEAN}

\* Server configurations that vary the ALPN lists.
AlpnConfigs ==
  {[DefaultConfig EXCEPT !.alpnProtocols = Csv(alpn), !.altAlpnProtocols = Csv(alt)] :
     alpn \in {<<>>, <<h2>>, <<spdy_1>>, <<h2, http_1_1>>, <<http_1_1, h2>>},
     alt \in {<<>>, <<spdy_1>>, <<http_1_1, spdy_1>>}}

\* Server configurations that vary the session ticket keys.
TicketConfigs ==
  {[DefaultConfig EXCEPT !.sessionTicketKeys = keys] :
     keys \in {<<>>, <<BlobZero>>, <<BlobZero, BlobOne, BlobTwo>>,
               <<BlobOne, BlobZero>>, <<BlobZero, BlobOne, BlobOneB>>}}

\* Configurations that set everything, for either role, and configurations
\* whose construction throws.
OtherConfigs ==
  {[DefaultConfig EXCEPT !.role = role, !.caCertFile = "ca2.pem",
                         !.certChainFile = "chain.pem",
                         !.verifySubjectAltNameList = <<foo_com>>,
                         !.verifyCertificateHash = HexOne,
                         !.alpnProtocols = Csv(<<h2, http_1_1>>),
                         !.altAlpnProtocols = Csv(<<spdy_1>>),
                         !.sessionTicketKeys = <<BlobZero, BlobOne>>,
                         !.serverNameIndication = foo_com] : role \in {"client", "server"}}
    \cup {[DefaultConfig EXCEPT !.caCertFile = "missing.pem"],
          [DefaultConfig EXCEPT !.sessionTicketKeys = <<BlobZero, Rep(79, 1)>>]}

\* Server configurations that vary what the session id context digests.
name_a   == Str(<<"a">>)
name_ab  == Str(<<"a", "b">>)
name_bc  == Str(<<"b", "c">>)
name_c   == Str(<<"c">>)
DigestConfigs ==
  {[DefaultConfig EXCEPT !.caCertFile = ca, !.verifySubjectAltNameList = sans,
                         !.verifyCertificateHash = hash] :
     ca \in {"", "ca1.pem", "ca2.pem"},
     sans \in {<<>>, <<name_ab, name_c>>, <<name_a, name_bc>>},
     hash \in {<<>>, HexOne}}

Configs ==
  VerifyConfigs \cup AlpnConfigs \cup TicketConfigs \cup DigestConfigs \cup OtherConfigs

\* Peers: without a certificate, or with one.
NoCert == [chain_ok |-> FALSE, sans |-> <<>>, digest |-> <<>>]
Dns(name) == [type |-> "GEN_DNS", value |-> name]
Uri(name) == [type |-> "GEN_URI", value |-> name]
PeerSans == {<<>>, <<Dns(api_foo_com)>>, <<Dns(foo_com)>>, <<Dns(star_foo_com)>>,
             <<Uri(foo_com)>>, <<Uri(star_foo_com), Dns(example_com)>>,
             <<[type |-> "GEN_IPADD", value |-> foo_com]>>}
Peers ==
  {[present |-> FALSE, cert |-> NoCert]}
    \cup {[present |-> TRUE, cert |-> [chain_ok |-> ok, sans |-> sans, digest |-> d]] :
            ok \in BOOLEAN, sans \in PeerSans, d \in {DigestOne, DigestTwo}}

\* Protocol lists a client offers: up to MaxOffered names, none repeated.
MaxOffered == 2
ProtocolNames == {h2, http_1_1, spdy_1}
Offers ==
  {o \in UNION {[1..n -> ProtocolNames] : n \in 0..MaxOffered} :
     \A i, j \in 1..Len(o) : i # j => o[i] # o[j]}

(***************************************************************************)
(* The context and its callbacks.                                          *)
(***************************************************************************)
NoStats == [fail_verify_error_ |-> 0, fail_verify_san_ |-> 0, fail_verify_cert_hash_ |-> 0]

InitWith(cfgs) ==
  /\ config \in cfgs
  /\ ctx = Construct(config)
  /\ stats = NoStats
  /\ issued = {}
  /\ last = [op |-> "none"]

Init == InitWith(Configs)

Next ==
  \/ \E peer \in Peers : Handshake(peer)
  \/ \E offered \in Offers, enabled \in BOOLEAN : AlpnSelect(offered, enabled)
  \/ \E hmac_ok, cipher_ok \in BOOLEAN : ctx.ticket_key_cb /\ TicketEncrypt(hmac_ok, cipher_ok)
  \/ \E key_name \in KeyNames, hmac_ok, cipher_ok \in BOOLEAN :
       ctx.ticket_key_cb /\ TicketDecrypt(key_name, hmac_ok, cipher_ok)

Spec == Init /\ [][Next]_vars

(***************************************************************************)
(* Subject alternative name matching, over all short names.                *)
(***************************************************************************)
MaxSanLen == 2
SanAlphabet == {Star, Dot, 97}
SanNames ==
  (StringsUpTo(SanAlphabet, MaxSanLen) \ {<<>>})
    \cup {foo_com, api_foo_com, star_foo_com,
          example_com, www_example_com, a_b_example_com, star_example_com}

SanConfigs ==
  {[DefaultConfig EXCEPT !.caCertFile = "ca1.pem", !.verifySubjectAltNameList = <<n>>] :
     n \in SanNames}

SanPeers ==
  {[present |-> TRUE,
    cert |-> [chain_ok |-> TRUE, sans |-> <<Dns(n)>>, digest |-> DigestOne]] :
     n \in SanNames}

InitSan == InitWith(SanConfigs)

NextSan == \E peer \in SanPeers : Handshake(peer)

SpecSan == InitSan /\ [][NextSan]_vars

(***************************************************************************)
(* sessionTicketProcess, called on contexts over all short key lists.      *)
(***************************************************************************)
MaxKeys == 3
TicketBlobs == {BlobZero, BlobOne, BlobTwo, BlobOneB}
KeyLists == UNION {[1..n -> TicketBlobs] : n \in 0..MaxKeys}

InitTicket == InitWith({[DefaultConfig EXCEPT !.sessionTicketKeys = keys] : keys \in KeyLists})

NextTicket ==
  \/ \E hmac_ok, cipher_ok \in BOOLEAN : TicketEncrypt(hmac_ok, cipher_ok)
  \/ \E key_name \in KeyNames, hmac_ok, cipher_ok \in BOOLEAN :
       TicketDecrypt(key_name, hmac_ok, cipher_ok)

SpecTicket == InitTicket /\ [][NextTicket]_vars

(***************************************************************************)
(* parseAlpnProtocols, over all short protocol strings, strings of names   *)
(* around the name length limit, and strings around the size limit.        *)
(***************************************************************************)
MaxAlpnLen == 4
MaxNames == 2
AlpnAlphabet == {Comma, 104, 50}

\* name lengths around the limit of one name
NameLens == {0, 1, AlpnMaxProtocolLen, AlpnMaxProtocolLen + 1}

\* The comma-separated string whose names have the lengths lens.
RECURSIVE NamesOfLens(_)
NamesOfLens(lens) ==
  IF lens = <<>> THEN <<>> ELSE <<Rep(Head(lens), 104)>> \o NamesOfLens(Tail(lens))

\* The string of n characters made of names of 255 characters, each followed
\* by a comma (the last name is what remains).
LongStr(n) ==
  SubSeq([k \in 1..n |-> IF k % (AlpnMaxProtocolLen + 1) = 0 THEN Comma ELSE 104], 1, n)

AlpnInputs ==
  StringsUpTo(AlpnAlphabet, MaxAlpnLen)
    \cup {Csv(NamesOfLens(lens)) : lens \in UNION {[1..n -> NameLens] : n \in 1..MaxNames}}
    \cup {Csv(<<h2, http_1_1>>), Csv(<<http_1_1, spdy_1, h2>>)}

AlpnLimitInputs ==
  AlpnInputs \cup {LongStr(AlpnMaxStringSize - 1), LongStr(AlpnMaxStringSize)}

\* A protocol string of the set inputs is handed to parseAlpnProtocols.
InitParse(inputs) ==
  /\ config = DefaultConfig
  /\ ctx = Construct(config)
  /\ stats = NoStats
  /\ issued = {}
  /\ last \in {[op |-> "call parseAlpnProtocols", alpn_protocols |-> s] : s \in inputs}

InitAlpn == InitParse(AlpnInputs)

NextAlpn == ParseAlpn

SpecAlpn == InitAlpn /\ [][NextAlpn]_vars

InitAlpnLimit == InitParse(AlpnLimitInputs)

SpecAlpnLimit == InitAlpnLimit /\ [][NextAlpn]_vars

(***************************************************************************)
(* Server contexts constructed from session ticket key blobs of any size.  *)
(***************************************************************************)
KeyBlobs ==
  {BlobZero, BlobOne, <<>>,
   Rep(SessionTicketKeySize - 1, 1), Rep(SessionTicketKeySize + 1, 7)}
KeyBlobLists == UNION {[1..n -> KeyBlobs] : n \in 0..MaxKeys}

InitKeys ==
  InitWith({[DefaultConfig EXCEPT !.sessionTicketKeys = blobs] : blobs \in KeyBlobLists})

SpecKeys == InitKeys /\ [][NextTicket]_vars

(***************************************************************************)
(* Expiry queries on contexts with and without certificates.               *)
(***************************************************************************)
MaxDays == 2
TimeDiffs ==
  {[ok |-> FALSE, days |-> 0]} \cup {[ok |-> TRUE, days |-> d] : d \in (0 - MaxDays)..MaxDays}

ExpiryConfigs ==
  {[DefaultConfig EXCEPT !.caCertFile = ca, !.certChainFile = chain] :
     ca \in {"", "ca1.pem", "ca2.pem"}, chain \in {"", "chain.pem"}}

InitExpiry == InitWith(ExpiryConfigs)

NextExpiry == \E ca_diff, chain_diff \in TimeDiffs : ExpiryQuery(ca_diff, chain_diff)

SpecExpiry == InitExpiry /\ [][NextExpiry]_vars

(***************************************************************************)
(* Properties.                                                             *)
(***************************************************************************)

\* p is of the form *.<suffix>.
IsWildcard(p) == Len(p) >= 2 /\ p[1] = Star /\ p[2] = Dot

\* s ends with suf.
EndsWith(s, suf) ==
  Len(s) >= Len(suf) /\ SubSeq(s, Len(s) - Len(suf) + 1, Len(s)) = suf

\* The wildcard rule: name equals pattern, or pattern is *.<suffix> and name
\* is strictly longer than .<suffix> and ends with it.
WildcardAccepts(pattern, name) ==
  \/ name = pattern
  \/ /\ IsWildcard(pattern)
     /\ Len(name) > Len(Tail(pattern))
     /\ EndsWith(name, Tail(pattern))

\* In SpecSan: the configured name and the DNS name the peer presents.
ConfiguredSan == config.verifySubjectAltNameList[1]
PresentedSan == last.peer.cert.sans[1].value

SanListAccepts(sans, names) ==
  \E i \in 1..Len(sans), k \in 1..Len(names) :
    \/ sans[i].type = "GEN_DNS" /\ WildcardAccepts(sans[i].value, names[k])
    \/ sans[i].type = "GEN_URI" /\ sans[i].value = names[k]

\* The verification steps of a certificate on the context, and which fail.
SanApplies == ctx.verify_subject_alt_name_list_ # <<>>
HashApplies == ctx.verify_certificate_hash_ # <<>>
ChainFails == ~last.peer.cert.chain_ok
SanFails ==
  SanApplies /\ ~SanListAccepts(last.peer.cert.sans, ctx.verify_subject_alt_name_list_)
HashFails == HashApplies /\ last.peer.cert.digest # ctx.verify_certificate_hash_

\* C2: verification runs chain validation, then the SAN check if a SAN list
\* is configured, then the hash check if a hash is configured, and stops at
\* the first failure: the result is accept iff no applicable step fails;
\* a rejection evaluates no later step and increments exactly the counter
\* of the failing step by one; an accept increments nothing.
C2_ShortCircuitPipeline ==
  (last.op = "handshake" /\ last.invoked) =>
    IF ChainFails
    THEN /\ ~last.accepted
         /\ last.steps = <<"chain">>
         /\ stats = Inc(last.before, "fail_verify_error_")
    ELSE IF SanFails
    THEN /\ ~last.accepted
         /\ last.steps = <<"chain", "san">>
         /\ stats = Inc(last.before, "fail_verify_san_")
    ELSE IF HashFails
    THEN /\ ~last.accepted
         /\ last.steps = <<"chain">> \o (IF SanApplies THEN <<"san">> ELSE <<>>) \o <<"hash">>
         /\ stats = Inc(last.before, "fail_verify_cert_hash_")
    ELSE /\ last.accepted
         /\ last.ret = 1
         /\ last.steps = <<"chain">> \o (IF SanApplies THEN <<"san">> ELSE <<>>)
                           \o (IF HashApplies THEN <<"hash">> ELSE <<>>)
         /\ stats = last.before

\* C2 witness: a certificate that fails the SAN check and would fail the
\* hash check too is rejected at the SAN check.
C2_Witness ==
  /\ last.op = "handshake"
  /\ last.invoked
  /\ ~ChainFails /\ SanFails /\ HashFails
  /\ last.steps = <<"chain", "san">>

\* C3: the verify mode follows from the configuration: none without CA
\* certificate, SAN list and hash; peer with a CA certificate only; peer with
\* a required certificate with a SAN list or a hash.  The verification
\* callback is registered iff the mode is not none, and under mode none no
\* peer is verified and every peer is accepted.
C3_VerifyModeFromConfig ==
  ctx.error = NoError =>
    LET noCa   == config.caCertFile = ""
        noSan  == config.verifySubjectAltNameList = <<>>
        noHash == config.verifyCertificateHash = <<>>
        caOnly == ~noCa /\ noSan /\ noHash
                    /\ ~(config.role = "server" /\ config.requireClientCertificate)
    IN /\ (noCa /\ noSan /\ noHash) => ctx.verify_mode = SSL_VERIFY_NONE
       /\ caOnly => ctx.verify_mode = SSL_VERIFY_PEER
       /\ (~noSan \/ ~noHash)
            => ctx.verify_mode = SSL_VERIFY_PEER \cup SSL_VERIFY_FAIL_IF_NO_PEER_CERT
       /\ ctx.cert_verify_cb <=> ctx.verify_mode # SSL_VERIFY_NONE
       /\ (ctx.verify_mode = SSL_VERIFY_NONE /\ last.op = "handshake")
            => (~last.invoked /\ last.accepted /\ stats = NoStats)

\* C3 witness: a context of mode none accepts a peer whose certificate
\* chain is invalid, without verifying it.
C3_Witness ==
  /\ ctx.error = NoError
  /\ ctx.verify_mode = SSL_VERIFY_NONE
  /\ last.op = "handshake"
  /\ last.peer.present /\ ~last.peer.cert.chain_ok
  /\ last.accepted

\* The position of the first key of the list with the given name (0: none).
FirstKeyNamed(keys, name) ==
  IF \E i \in 1..Len(keys) : keys[i].name = name
  THEN CHOOSE i \in 1..Len(keys) :
         keys[i].name = name /\ \A j \in 1..(i - 1) : keys[j].name # name
  ELSE 0

\* C4: when HMAC and cipher initialisation succeed, decryption is decided
\* by the position of the first key whose name is the ticket's: no such key:
\* 0 (rejected); position 0: 1 (accepted); a later position: 2 (accepted,
\* renew), with HMAC and cipher initialised from that key.
C4_DecryptByFirstMatch ==
  (last.op = "decrypt" /\ last.hmac_ok /\ last.cipher_ok) =>
    LET keys == ctx.session_ticket_keys_
        pos  == FirstKeyNamed(keys, last.key_name)
    IN /\ pos = 0 => (last.ret = 0 /\ last.hmac_key = <<>> /\ last.aes_key = <<>>)
       /\ pos = 1 => last.ret = 1
       /\ pos >= 2 => last.ret = 2
       /\ pos >= 1 => /\ last.hmac_key = keys[pos].hmac_key
                      /\ last.aes_key = keys[pos].aes_key

\* C4 witness: a ticket named after the second key, whose name the third
\* key carries as well, is accepted for renewal with the second key.
C4_Witness ==
  /\ last.op = "decrypt" /\ last.hmac_ok /\ last.cipher_ok
  /\ Len(ctx.session_ticket_keys_) = 3
  /\ ctx.session_ticket_keys_[2].name = last.key_name
  /\ ctx.session_ticket_keys_[3].name = last.key_name
  /\ ctx.session_ticket_keys_[3].aes_key # ctx.session_ticket_keys_[2].aes_key
  /\ ctx.session_ticket_keys_[1].name # last.key_name
  /\ last.ret = 2

\* The ticket name was written by an encryption of this context.
IssuedHere(name) == \E ticket \in issued : ticket.key_name = name

\* What C5 says of encryption: it succeeds iff there is a key and HMAC and
\* cipher initialisation succeed, fails with -1 otherwise, and a success
\* names the ticket after key 0 and uses the material of key 0.
EncryptUsesKeyZero ==
  last.op = "encrypt" =>
    LET keys == ctx.session_ticket_keys_
    IN /\ last.ret = 1 <=> (keys # <<>> /\ last.hmac_ok /\ last.cipher_ok)
       /\ last.ret # 1 => last.ret = -1
       /\ last.ret = 1 => /\ last.key_name = keys[1].name
                          /\ last.hmac_key = keys[1].hmac_key
                          /\ last.aes_key = keys[1].aes_key

\* C5 (as amended): encryption uses key 0 only and fails with -1 on an
\* empty key list or a failed initialisation; a ticket the context issued
\* is decrypted as accepted without renewal (1) provided HMAC and cipher
\* initialisation succeed on decryption.
C5_EncryptKeyZeroDecryptIfInitOk ==
  /\ EncryptUsesKeyZero
  /\ (last.op = "decrypt" /\ IssuedHere(last.key_name)
        /\ last.hmac_ok /\ last.cipher_ok) => last.ret = 1

\* C5 witness: a context of several keys decrypts its own ticket.
C5_Witness ==
  /\ last.op = "decrypt"
  /\ IssuedHere(last.key_name)
  /\ Len(ctx.session_ticket_keys_) >= 2
  /\ ctx.session_ticket_keys_[2].name # last.key_name
  /\ last.ret = 1

\* C5 as stated: a ticket the context issued is always decrypted as
\* accepted without renewal.
C5_OwnTicketAlwaysAccepted ==
  /\ EncryptUsesKeyZero
  /\ (last.op = "decrypt" /\ IssuedHere(last.key_name)) => last.ret = 1

\* The verification policy the session id context is to separate: the CA
\* certificate, the SAN list and the pinned hash.
PolicyOf(cfg) ==
  <<IF cfg.caCertFile = "" THEN <<>> ELSE loadCert(cfg.caCertFile).cert,
    cfg.verifySubjectAltNameList,
    HexDecode(RemoveColons(cfg.verifyCertificateHash))>>

\* C6: two server contexts have the same session id context iff they have
\* the same CA certificate, SAN list and pinned hash.
C6_DigestSeparatesPolicies ==
  (last.op = "none" /\ ctx.error = NoError /\ ctx.role = "server") =>
    \A other \in Configs :
      (other.role = "server" /\ Construct(other).error = NoError) =>
        (PolicyOf(other) = PolicyOf(config)
           <=> Construct(other).session_id_context = ctx.session_id_context)

\* The names of the list the selection ran against, and the positions of
\* those the client offered.
SupportedNames == AlpnEntries(last.alpn_data).names
CommonPositions ==
  {i \in 1..Len(SupportedNames) :
     \E j \in 1..Len(last.offered) : last.offered[j] = SupportedNames[i]}

\* C7: selection returns the first protocol of the server's list that the
\* client offers, whatever the client's order; without a common protocol it
\* returns no-ack and no protocol is selected.
C7_FirstOfServerList ==
  last.op = "alpn" =>
    IF CommonPositions = {}
    THEN last.ret = "SSL_TLSEXT_ERR_NOACK" /\ last.selected = <<>>
    ELSE /\ last.ret = "SSL_TLSEXT_ERR_OK"
         /\ last.selected =
              <<SupportedNames[CHOOSE i \in CommonPositions :
                                 \A j \in CommonPositions : i <= j]>>

\* C7 witness: the client prefers http/1.1, the server h2: h2 is selected.
C7_Witness ==
  /\ last.op = "alpn"
  /\ last.offered = <<http_1_1, h2>>
  /\ SupportedNames = <<h2, http_1_1>>
  /\ last.selected = <<h2>>

\* C8: with an alternate list, a selection asks for the feature flag at
\* most once and runs against the alternate list iff the flag is enabled,
\* against the primary list otherwise; the lists are those constructed and
\* a selection leaves them as they were.
C8_AlternateListIffFlag ==
  (last.op = "alpn" /\ ctx.parsed_alt_alpn_protocols_ # <<>>) =>
    /\ last.flag_queries <= 1
    /\ last.enabled => last.alpn_data = ctx.parsed_alt_alpn_protocols_
    /\ ~last.enabled => last.alpn_data = ctx.parsed_alpn_protocols_
    /\ ctx = last.before
    /\ ctx.parsed_alpn_protocols_ = parseAlpnProtocols(config.alpnProtocols).out
    /\ ctx.parsed_alt_alpn_protocols_ = parseAlpnProtocols(config.altAlpnProtocols).out

\* C8 witness: a selection with the flag enabled ran against an alternate
\* list that differs from the primary list.
C8_Witness ==
  /\ last.op = "alpn"
  /\ last.enabled
  /\ ctx.parsed_alt_alpn_protocols_ # <<>>
  /\ ctx.parsed_alt_alpn_protocols_ # ctx.parsed_alpn_protocols_
  /\ last.alpn_data = ctx.parsed_alt_alpn_protocols_

\* s has a name of more than 255 characters: 256 characters without a
\* comma, starting at the start of a name.
HasLongName(s) ==
  \E i \in 0..(Len(s) - (AlpnMaxProtocolLen + 1)) :
    /\ i = 0 \/ s[i] = Comma
    /\ \A k \in 1..(AlpnMaxProtocolLen + 1) : s[i + k] # Comma

\* C9 (as amended): parsing fails when a name is longer than 255 bytes and
\* when the input is 65535 bytes or longer, that is when the encoded size
\* would reach 65536 bytes; a list returned has at most 65535 bytes.  Empty
\* input gives the empty list.
C9_SizeLimitOnInput ==
  last.op = "parseAlpnProtocols" =>
    LET s == last.alpn_protocols
    IN /\ HasLongName(s) => last.ret.error # NoError
       /\ Len(s) >= AlpnMaxStringSize => last.ret.error # NoError
       /\ last.ret.error = NoError => Len(last.ret.out) <= AlpnMaxStringSize
       /\ s = <<>> => (last.ret.error = NoError /\ last.ret.out = <<>>)

\* C9 witness: an input of 65535 bytes whose names are all short is refused.
C9_Witness ==
  /\ last.op = "parseAlpnProtocols"
  /\ Len(last.alpn_protocols) = AlpnMaxStringSize
  /\ ~HasLongName(last.alpn_protocols)
  /\ last.ret.error # NoError

\* C9 as stated: parsing fails when the encoded size (the sum over the
\* names of length + 1, the input size + 1) would reach 65535 bytes, and a
\* list returned is shorter than 65535 bytes.
C9_SizeLimitOnEncoding ==
  last.op = "parseAlpnProtocols" =>
    LET s == last.alpn_protocols
    IN /\ HasLongName(s) => last.ret.error # NoError
       /\ (s # <<>> /\ Len(s) + 1 >= AlpnMaxStringSize) => last.ret.error # NoError
       /\ last.ret.error = NoError => Len(last.ret.out) < AlpnMaxStringSize
       /\ s = <<>> => (last.ret.error = NoError /\ last.ret.out = <<>>)

\* C10: the entries of an accepted input's encoding, read as (length,
\* bytes), use up the encoding and are the names of the input in order.
C10_RoundTrip ==
  (last.op = "parseAlpnProtocols" /\ last.ret.error = NoError) =>
    /\ AlpnEntries(last.ret.out).ok
    /\ AlpnEntries(last.ret.out).names = SplitOnComma(last.alpn_protocols)

\* C10 witness: h2,http/1.1 is encoded as 2 h2 8 http/1.1.
C10_Witness ==
  /\ last.op = "parseAlpnProtocols"
  /\ last.alpn_protocols = Csv(<<h2, http_1_1>>)
  /\ last.ret.out = <<2>> \o h2 \o <<8>> \o http_1_1

\* C11: every list parseAlpnProtocols returns is well-formed wire data
\* whose entries each have a length prefix of 1..255: no entry is a
\* zero-length name, whatever commas the accepted input has.
C11_NoZeroLengthName ==
  (last.op = "parseAlpnProtocols" /\ last.ret.error = NoError) =>
    LET entries == AlpnEntries(last.ret.out)
    IN /\ entries.ok
       /\ \A k \in 1..Len(entries.names) :
            /\ Len(entries.names[k]) >= 1
            /\ Len(entries.names[k]) <= AlpnMaxProtocolLen

\* The positions of the configured blobs that are not 80 bytes long.
WrongSizeBlobs ==
  {i \in 1..Len(config.sessionTicketKeys) : Len(config.sessionTicketKeys[i]) # 80}

\* C12: construction of a server context succeeds iff every configured
\* ticket key blob has exactly 80 bytes; key i is then blob i split into
\* name (bytes 0..15), HMAC key (bytes 16..47) and AES key (bytes 48..79),
\* in the configured order, blob 0 naming the tickets encrypted.  Otherwise
\* construction throws an error carrying the index of the first blob of
\* another size, that size and 80, and there is no context.
C12_TicketKeyParsing ==
  LET blobs == config.sessionTicketKeys
      keys  == ctx.session_ticket_keys_
  IN /\ ctx.error = NoError <=> WrongSizeBlobs = {}
     /\ WrongSizeBlobs = {} =>
          /\ Len(keys) = Len(blobs)
          /\ \A i \in 1..Len(blobs) :
               /\ Len(keys[i].name) = 16
               /\ Len(keys[i].hmac_key) = 32
               /\ Len(keys[i].aes_key) = 32
               /\ keys[i].name \o keys[i].hmac_key \o keys[i].aes_key = blobs[i]
          /\ (last.op = "encrypt" /\ last.ret = 1) => last.key_name = SubSeq(blobs[1], 1, 16)
     /\ WrongSizeBlobs # {} =>
          LET first == CHOOSE i \in WrongSizeBlobs : \A j \in WrongSizeBlobs : i <= j
          IN ctx = Thrown(<<"Incorrect TLS session ticket key length",
                            first - 1, Len(blobs[first]), 80>>)

\* C12 witness: of three blobs the second and the third have a wrong size,
\* and the error names index 1 and the size of the second.
C12_Witness ==
  /\ Len(config.sessionTicketKeys) = 3
  /\ WrongSizeBlobs = {2, 3}
  /\ Len(config.sessionTicketKeys[2]) = 81
  /\ Len(config.sessionTicketKeys[3]) = 79
  /\ ctx.error = <<"Incorrect TLS session ticket key length", 1, 81, 80>>

\* C13: in every constructed context a SAN list or a pinned hash comes
\* with a CA certificate, and with the mode peer-with-required-certificate:
\* no context has a SAN list or a pinned hash but no CA certificate.
C13_SanOrHashImpliesCa ==
  (ctx.error = NoError
     /\ (ctx.verify_subject_alt_name_list_ # <<>> \/ ctx.verify_certificate_hash_ # <<>>)) =>
    /\ ctx.ca_cert_ # <<>>
    /\ ctx.verify_mode = SSL_VERIFY_PEER \cup SSL_VERIFY_FAIL_IF_NO_PEER_CERT

\* The failure a callback result r (a value of last) reports: "" for none.
FailureKind(r) ==
  CASE r.op = "handshake" /\ r.invoked /\ ~r.accepted -> r.steps[Len(r.steps)]
    [] r.op = "alpn" /\ r.ret = "SSL_TLSEXT_ERR_NOACK" -> "alpn"
    [] r.op \in {"encrypt", "decrypt"} /\ r.ret = -1    -> "ticket init"
    [] r.op = "decrypt" /\ r.ret = 0                    -> "ticket name"
    [] OTHER                                            -> ""

\* The outcomes of every callback another connection could make, on
\* context c with counters st.
OutcomesOn(c, st) ==
  [verify |-> [peer \in Peers |-> PeerVerification(c, st, peer).accepted],
   alpn   |-> IF c.alpn_select_cb
              THEN [o \in Offers \X BOOLEAN |->
                      alpnSelectCallback(c, AlpnWire(o[1]), o[2]).ret]
              ELSE <<>>,
   ticket |-> [k \in KeyNames |-> sessionTicketProcess(c, k, 0, TRUE, TRUE)]]

\* A step that ends in a failure leaves the context and the outcomes
\* of all other connections as they were.
FailureIsContained ==
  FailureKind(last') # "" =>
    /\ ctx' = ctx
    /\ OutcomesOn(ctx', stats') = OutcomesOn(ctx, stats)
    /\ FailureKind(last') = "alpn" => last'.selected = <<>>

\* C14 (as amended): a chain validation failure, a SAN mismatch and a hash
\* mismatch each increment their own counter by one and fail that handshake;
\* an ALPN selection without a common protocol, a failed ticket HMAC or
\* cipher initialisation and an unknown ticket key name increment no
\* counter; none of the six changes the context or the outcome of any other
\* connection, and without a common protocol none is selected.
C14_FailuresContainedThreeCounted ==
  [][/\ FailureIsContained
     /\ FailureKind(last') = "chain" => stats' = Inc(stats, "fail_verify_error_")
     /\ FailureKind(last') = "san"   => stats' = Inc(stats, "fail_verify_san_")
     /\ FailureKind(last') = "hash"  => stats' = Inc(stats, "fail_verify_cert_hash_")
     /\ FailureKind(last') \in {"alpn", "ticket init", "ticket name"} => stats' = stats
    ]_vars

\* C14 witness: on a context that counted a SAN mismatch before, an ALPN
\* selection finds no common protocol and the counters stay.
C14_Witness ==
  /\ last.op = "alpn"
  /\ last.ret = "SSL_TLSEXT_ERR_NOACK"
  /\ stats = [NoStats EXCEPT !.fail_verify_san_ = 1]

\* C14 as stated: each of the six failure kinds increments a counter,
\* and none changes the context or the outcome of another connection.
C14_EveryFailureCounted ==
  [][/\ FailureIsContained
     /\ FailureKind(last') # "" => \E counter \in DOMAIN stats : stats' = Inc(stats, counter)
    ]_vars

\* The context as its constructor made it.
Constructed == Construct(config)

\* C15: whatever callbacks have run, in whatever order, the context's SAN
\* list, pinned hash, ALPN lists, ticket keys and SNI name are those it was
\* constructed with, and indeed nothing of the context has changed; the
\* result of the last callback is what that callback gives on the
\* constructed context for its own inputs (and the flag, for ALPN), and the
\* counters are all it changed.
C15_ContextReadOnly ==
  ctx.error = NoError =>
    /\ ctx.verify_subject_alt_name_list_ = config.verifySubjectAltNameList
    /\ ctx.verify_certificate_hash_ = HexDecode(RemoveColons(config.verifyCertificateHash))
    /\ ctx.parsed_alpn_protocols_ = parseAlpnProtocols(config.alpnProtocols).out
    /\ ctx.parsed_alt_alpn_protocols_ =
         (IF ctx.role = "server" THEN parseAlpnProtocols(config.altAlpnProtocols).out
          ELSE <<>>)
    /\ Len(ctx.session_ticket_keys_) =
         (IF ctx.role = "server" THEN Len(config.sessionTicketKeys) ELSE 0)
    /\ \A i \in 1..Len(ctx.session_ticket_keys_) :
         ctx.session_ticket_keys_[i] = SplitTicketKey(config.sessionTicketKeys[i])
    /\ ctx.server_name_indication_ =
         (IF ctx.role = "client" THEN config.serverNameIndication ELSE <<>>)
    /\ ctx = Constructed
    /\ last.op = "handshake" =>
         LET r == PeerVerification(Constructed, NoStats, last.peer)
         IN /\ <<last.invoked, last.ret, last.steps, last.accepted>>
                 = <<r.invoked, r.ret, r.steps, r.accepted>>
            /\ \A counter \in DOMAIN stats :
                 stats[counter] - last.before[counter] = r.stats[counter]
    /\ last.op = "alpn" =>
         LET r == alpnSelectCallback(Constructed, AlpnWire(last.offered), last.enabled)
         IN <<last.ret, last.out, last.alpn_data>> = <<r.ret, r.out, r.alpn_data>>
    /\ last.op \in {"encrypt", "decrypt"} =>
         LET r == sessionTicketProcess(Constructed, last.key_name,
                                       IF last.op = "encrypt" THEN 1 ELSE 0,
                                       last.hmac_ok, last.cipher_ok)
         IN <<last.ret, last.hmac_key, last.aes_key>> = <<r.ret, r.hmac_key, r.aes_key>>

\* C15 witness: after verifications that failed and tickets that were
\* issued, a selection runs against the alternate list of the context, which
\* is as constructed.
C15_Witness ==
  /\ last.op = "alpn"
  /\ last.enabled
  /\ last.alpn_data = Constructed.parsed_alt_alpn_protocols_
  /\ last.alpn_data # Constructed.parsed_alpn_protocols_
  /\ stats.fail_verify_error_ >= 1
  /\ stats.fail_verify_cert_hash_ >= 1
  /\ issued # {}
  /\ ctx = Constructed

\* The days to notAfter of the certificates the context has loaded, at the
\* time of the last expiry query (0 where the time difference is not to be
\* had).
DaysOf(diff) == IF diff.ok THEN diff.days ELSE 0
LoadedDays ==
  (IF ctx.ca_cert_ # <<>> THEN {DaysOf(last.ca_diff)} ELSE {})
    \cup (IF ctx.cert_chain_ # <<>> THEN {DaysOf(last.chain_diff)} ELSE {})
MinLoadedDays == CHOOSE d \in LoadedDays : \A e \in LoadedDays : d <= e

\* What C16 says of the aggregate: it is never negative, it is max(0,
\* minimum over the loaded certificates of their days to notAfter), an absent
\* certificate counting as the maximum value, and it is the maximum value
\* only when neither certificate is loaded.
AggregateIsClamped ==
  /\ last.first_days >= 0
  /\ last.first_days =
       (IF LoadedDays = {} THEN INT_MAX
        ELSE IF MinLoadedDays < 0 THEN 0 ELSE MinLoadedDays)
  /\ last.first_days = INT_MAX <=> (ctx.ca_cert_ = <<>> /\ ctx.cert_chain_ = <<>>)
  /\ ctx.ca_cert_ = <<>> => (last.ca_days = INT_MAX /\ last.ca_info = <<>>)
  /\ ctx.cert_chain_ = <<>> => (last.chain_days = INT_MAX /\ last.chain_info = <<>>)

\* C16 (as amended): the 'days until first cert expires' aggregate is
\* clamped to 0 and is max(0, minimum over the loaded certificates), the
\* maximum value only when no certificate is loaded; the per-certificate
\* query and the information strings are not clamped: for a loaded
\* certificate they report its days to notAfter as they are, negative once
\* it has expired.
C16_OnlyAggregateClamped ==
  last.op = "expiry" =>
    /\ AggregateIsClamped
    /\ ctx.ca_cert_ # <<>> =>
         /\ last.ca_days = DaysOf(last.ca_diff)
         /\ last.ca_info[6] = FormatInt(DaysOf(last.ca_diff))
    /\ ctx.cert_chain_ # <<>> =>
         /\ last.chain_days = DaysOf(last.chain_diff)
         /\ last.chain_info[6] = FormatInt(DaysOf(last.chain_diff))

\* C16 witness: the CA certificate expired two days ago, the chain is
\* good for a day: the query on the CA certificate gives -2, its
\* information string says -2, the aggregate is 0.
C16_Witness ==
  /\ last.op = "expiry"
  /\ ctx.ca_cert_ # <<>> /\ ctx.cert_chain_ # <<>>
  /\ last.ca_diff = [ok |-> TRUE, days |-> -2]
  /\ last.chain_diff = [ok |-> TRUE, days |-> 1]
  /\ last.ca_days = -2
  /\ last.ca_info[6] = <<45, 50>>
  /\ last.first_days = 0

\* C16 as stated: no expiry query reports a negative number of days: the
\* per-certificate query and the information strings give max(0, days to
\* notAfter) for a loaded certificate, and the aggregate is clamped as well.
C16_NeverNegative ==
  last.op = "expiry" =>
    /\ AggregateIsClamped
    /\ last.ca_days >= 0
    /\ last.chain_days >= 0
    /\ ctx.ca_cert_ # <<>> =>
         last.ca_info[6] = FormatInt(IF DaysOf(last.ca_diff) < 0 THEN 0
                                     ELSE DaysOf(last.ca_diff))
    /\ ctx.cert_chain_ # <<>> =>
         last.chain_info[6] = FormatInt(IF DaysOf(last.chain_diff) < 0 THEN 0
                                        ELSE DaysOf(last.chain_diff))

\* C17: a server context configured with requireClientCertificate has the
\* mode peer-with-required-certificate, whatever else is configured, a CA
\* certificate file or none, and never accepts a peer without certificate.
C17_RequiredCertificateAlwaysEnforced ==
  (ctx.error = NoError /\ ctx.role = "server" /\ config.requireClientCertificate) =>
    /\ ctx.verify_mode = SSL_VERIFY_PEER \cup SSL_VERIFY_FAIL_IF_NO_PEER_CERT
    /\ (last.op = "handshake" /\ ~last.peer.present) => ~last.accepted

====
